---- MODULE Spec2Model ----
(***************************************************************************)
(* A model of mcp_snowflake_server/db_client.py: the SnowflakeDB session   *)
(* manager (lazy initialisation, re-authentication on expiry, query        *)
(* execution, connection test, insight memo) run by callers on one asyncio *)
(* event loop, against a driver whose calls may fail.                      *)
(*                                                                         *)
(* Strings are sequences of tokens: f"a{x}b" is <<"a">> \o x \o <<"b">>.   *)
(* Handles are positive integers, None is 0.  A connection handle is the   *)
(* ordinal of the connect call that returned it, and a cursor handle is    *)
(* the handle of the connection that opened it.                            *)
(***************************************************************************)
EXTENDS Integers, Sequences, FiniteSets, TLC

\* ---------------------------------------------------------------- bounds
MaxEvents == 3       \* calls of the API and clock advances, taken together
MaxInsights == 2     \* add_insight calls
StartClock == 2000   \* time.time() at construction (epoch seconds, > 1800)

Procs == {"c1", "c2"}                       \* concurrent callers
Queries == {"SELECT 1"}                     \* SQL texts callers pass
InsightTexts == {"x", "y", "z"}             \* texts callers add
SharedText == "x"                           \* the text added while sessions run

\* ------------------------------------------------------- program constants
AUTH_EXPIRATION_TIME == 1800
None == 0

\* The clock advances to the last second of the window or to the first after it.
TickSteps == {AUTH_EXPIRATION_TIME, AUTH_EXPIRATION_TIME + 1}

\* --------------------------------------------------------------- strings
RECURSIVE Contains(_, _)
\* `needle in haystack` for token strings (contiguous occurrence).
Contains(hay, needle) ==
    IF Len(needle) > Len(hay) THEN FALSE
    ELSE IF SubSeq(hay, 1, Len(needle)) = needle THEN TRUE
    ELSE IF hay = <<>> THEN FALSE
    ELSE Contains(Tail(hay), needle)

RECURSIVE JoinBullets(_, _)
\* sep.join(f"- {x}" for x in items)
JoinBullets(sep, items) ==
    IF items = <<>> THEN <<>>
    ELSE IF Len(items) = 1 THEN <<"- ", items[1]>>
    ELSE <<"- ", items[1], sep>> \o JoinBullets(sep, Tail(items))

\* ------------------------------------------------------------ exceptions
NoExc == [type |-> "none", msg |-> <<>>]
DriverError(text) == [type |-> "DriverError", msg |-> <<text>>]
AttributeError == [type |-> "AttributeError", msg |-> <<"'NoneType' object has no attribute 'execute'">>]

\* raise ValueError(f"Failed to connect to Snowflake database: {e}")
InitError(e) ==
    [type |-> "ValueError", msg |-> <<"Failed to connect to Snowflake database: ">> \o e.msg]

\* --------------------------------------------------------- configuration
ConfigKeys ==
    {"account", "user", "private_key_path", "private_key_passphrase",
     "warehouse", "database", "schema", "role"}

FullConfig == [k \in ConfigKeys |-> <<"value of ", k>>]

\* The dictionaries the constructor may be given: complete, or without the
\* private key.
Configs ==
    { FullConfig,
      [k \in ConfigKeys \ {"private_key_path", "private_key_passphrase"} |-> FullConfig[k]] }

\* dict.get(k): the value, or None
Get(config, k) == IF k \in DOMAIN config THEN config[k] ELSE <<>>

ConnParams(config) ==
    [account |-> Get(config, "account"),
     user |-> Get(config, "user"),
     authenticator |-> <<"SNOWFLAKE_JWT">>,
     private_key_file |-> Get(config, "private_key_path"),
     private_key_file_pwd |-> Get(config, "private_key_passphrase"),
     warehouse |-> Get(config, "warehouse"),
     database |-> Get(config, "database"),
     schema |-> Get(config, "schema"),
     role |-> Get(config, "role")]

\* What the driver may do with the two calls of Initialize: connect(**params)
\* raises when account, user or key are missing and may raise otherwise;
\* connection.cursor() may raise.
ConnectOutcomes(params) ==
    IF params.account = <<>> \/ params.user = <<>> \/ params.private_key_file = <<>>
    THEN {"connect_fail"}
    ELSE {"ok", "connect_fail", "cursor_fail"}

\* ------------------------------------------------------------ result sets
\* A result set the driver holds after execute: cursor.description (one
\* descriptor per column, the name first) and the rows of fetchall().
ResultSets ==
    { [description |-> << <<"id", "FIXED">>, <<"name", "TEXT">> >>,
       rows |-> << <<"1", "a">>, <<"2", "b">> >>],
      [description |-> << <<"id", "FIXED">>, <<"id", "FIXED">> >>,
       rows |-> << <<"1", "2">> >>],
      [description |-> << <<"id", "FIXED">> >>,
       rows |-> << >>] }

NoResultSet == [description |-> <<>>, rows |-> <<>>]

\* Mutant of Columns: the descriptor's second field is read.
Columns_SecondField(description) == [j \in 1..Len(description) |-> description[j][2]]

\* columns = [desc[0] for desc in self.cursor.description]
Columns(description) == [j \in 1..Len(description) |-> description[j][1]]

\* A dict is the sequence of its (key, value) items in insertion order.
RECURSIVE DictSet(_, _, _)
\* d[k] = v: an existing key keeps its place and takes the new value.
DictSet(d, k, v) ==
    IF d = <<>> THEN << <<k, v>> >>
    ELSE IF Head(d)[1] = k THEN << <<k, v>> >> \o Tail(d)
    ELSE <<Head(d)>> \o DictSet(Tail(d), k, v)

Min(a, b) == IF a <= b THEN a ELSE b

RECURSIVE DictZipUpTo(_, _, _)
DictZipUpTo(columns, row, n) ==
    IF n = 0 THEN <<>>
    ELSE DictSet(DictZipUpTo(columns, row, n - 1), columns[n], row[n])

\* dict(zip(columns, row))
DictZip(columns, row) == DictZipUpTo(columns, row, Min(Len(columns), Len(row)))

\* result_rows = [dict(zip(columns, row)) for row in self.cursor.fetchall()]
ResultRows(rs) ==
    [i \in 1..Len(rs.rows) |-> DictZip(Columns(rs.description), rs.rows[i])]

\* ------------------------------------------------------------------ memo
\* (the header's two pictographs are left out of its token)
MemoPlaceholder == <<"No data insights have been discovered yet.">>
MemoHeader == <<"Data Intelligence Memo\n\n", "Key Insights Discovered:\n\n">>
SummaryHead == "\n\nSummary:\nAnalysis has revealed "
SummaryTail == " key data insights that suggest opportunities for strategic optimization and growth."

\* Mutant of HasSummary: the summary is added from one insight on.
HasSummary_FromOne(ins) == Len(ins) >= 1

\* if len(self.insights) > 1
HasSummary(ins) == Len(ins) > 1

\* get_memo's return value
GetMemoText(ins) ==
    IF ins = <<>> THEN MemoPlaceholder
    ELSE MemoHeader \o JoinBullets("\n", ins)
         \o (IF HasSummary(ins) THEN <<SummaryHead, ToString(Len(ins)), SummaryTail>> ELSE <<>>)

\* ----------------------------------------------------------------- state
VARIABLES
    connection_config,  \* self.connection_config
    connection,         \* self.connection (None or a handle)
    cursor,             \* self.cursor (None or the handle of its connection)
    auth_time,          \* self.auth_time
    init_task,          \* self.init_task (None or an index into tasks)
    insights,           \* self.insights
    tasks,              \* the event loop's tasks made by start_init_connection
    clock,              \* time.time()
    ticks,              \* clock advances so far
    connectCalls,       \* the driver's count of connect() calls
    pc,                 \* per caller: "idle", "called", "awaiting"
    op,                 \* per caller: the coroutine it runs
    arg,                \* per caller: the query argument
    awaited,            \* per caller: the task it awaits
    ahead,              \* per caller: how the Initialize runs of other callers
                        \* ended since this caller's coroutine was created
    ncalls,             \* caller invocations so far
    uuidCalls,          \* uuid.uuid4() calls made so far
    issued,             \* the data_id values execute_query has returned
    added,              \* the arguments of add_insight, in call order
    afterFailure,       \* the last execute_query or test_connection call to
                        \* end failed and no Initialize has succeeded since
    last                \* what the last step did and handed to its caller

vars ==
    <<connection_config, connection, cursor, auth_time, init_task, insights, tasks,
      clock, ticks, connectCalls, pc, op, arg, awaited, ahead, ncalls, uuidCalls,
      issued, added, afterFailure, last>>

session == <<connection, cursor, auth_time>>

\* execute_query, test_connection and start_init_connection calls and clock
\* advances so far.
Events == ncalls + Len(tasks) + ticks
callerVars == <<pc, op, arg, awaited, ahead, ncalls>>
history == <<issued, added, afterFailure>>

NoRet == [kind |-> "none"]
Raise(e) == [kind |-> "raise", exc |-> e]
Return(v) == [kind |-> "return", value |-> v]

NoInit == [ran |-> FALSE, exc |-> NoExc]

\* The object's fields, the stored task's state, the tasks, the clock, the
\* driver's counter and the history as a step finds them.
Pre ==
    [connection |-> connection, cursor |-> cursor, auth_time |-> auth_time,
     handle |-> init_task,
     task |-> IF init_task = None THEN "none" ELSE tasks[init_task].state,
     elapsed |-> clock - auth_time, connects |-> connectCalls, insights |-> insights,
     tasks |-> tasks, issued |-> issued, afterFailure |-> afterFailure]

\* The record of a step of operation `name`: the state it found, the caller
\* it belongs to, the phase of the call it ends ("invoke", "suspend", "end"),
\* the task the call awaited, the Initialize it ran or awaited, the
\* Initialize runs other callers made ahead of it, the connect() calls it
\* made, what it submitted to the driver, what the driver produced or
\* raised, and what it returned or raised.
Step(name) ==
    [op |-> name, pre |-> Pre, p |-> "", phase |-> "", arg |-> "", awaited |-> None,
     init |-> NoInit, ahead |-> <<>>, opened |-> 0, subs |-> <<>>, drv |-> NoResultSet,
     err |-> NoExc, ret |-> NoRet]

\* __init__
Init ==
    /\ connection_config \in Configs
    /\ connection = None
    /\ cursor = None
    /\ insights = <<>>
    /\ auth_time = 0
    /\ init_task = None
    /\ tasks = <<>>
    /\ clock = StartClock
    /\ ticks = 0
    /\ connectCalls = 0
    /\ pc = [p \in Procs |-> "idle"]
    /\ op = [p \in Procs |-> "none"]
    /\ arg = [p \in Procs |-> ""]
    /\ awaited = [p \in Procs |-> None]
    /\ ahead = [p \in Procs |-> <<>>]
    /\ ncalls = 0
    /\ uuidCalls = 0
    /\ issued = {}
    /\ added = <<>>
    /\ afterFailure = FALSE
    /\ last = Step("__init__")

\* ------------------------------------------------------------ Initialize
\* _init_database with the driver behaving as `out`: the new values of
\* (connection, cursor, auth_time) and the exception raised, if any.
InitDatabase(out) ==
    IF out = "connect_fail"
    THEN [connection |-> connection, cursor |-> cursor, auth_time |-> auth_time,
          exc |-> InitError(DriverError("E_connect"))]
    ELSE IF out = "cursor_fail"
    THEN [connection |-> connectCalls + 1, cursor |-> cursor, auth_time |-> auth_time,
          exc |-> InitError(DriverError("E_cursor"))]
    ELSE [connection |-> connectCalls + 1, cursor |-> connectCalls + 1, auth_time |-> clock,
          exc |-> NoExc]

\* Mutant of InitPending: a stored task counts as pending when it is done.
InitPending_WhenStored == init_task # None

\* if self.init_task and not self.init_task.done()
InitPending == init_task # None /\ tasks[init_task].state = "pending"

\* Mutants of Expired: the threshold one second late; the boundary second
\* counted as expired.
Expired_OneSecondLate == clock - auth_time > AUTH_EXPIRATION_TIME + 1
Expired_AtBoundary == clock - auth_time >= AUTH_EXPIRATION_TIME

\* time.time() - self.auth_time > self.AUTH_EXPIRATION_TIME
Expired == clock - auth_time > AUTH_EXPIRATION_TIME

\* Mutants of NeedsInit: the expiry test dropped; every call initializes.
NeedsInit_NoExpiry == connection = None
NeedsInit_Always == TRUE

\* elif not self.connection or time.time() - self.auth_time > self.AUTH_EXPIRATION_TIME
NeedsInit == connection = None \/ Expired

\* Initialize leaves the session as `s` after one connect() call.
RunInit(s) ==
    /\ connection' = s.connection
    /\ cursor' = s.cursor
    /\ auth_time' = s.auth_time
    /\ connectCalls' = connectCalls + 1

\* ------------------------------------------------- start_init_connection
\* Mutant of StartInitConnection: while a task is pending no new one is
\* scheduled and the stored handle is returned.
StartInitConnection_ReusesPending ==
    /\ Events < MaxEvents
    /\ tasks' = IF InitPending THEN tasks
                ELSE Append(tasks, [state |-> "pending", exc |-> NoExc])
    /\ init_task' = IF InitPending THEN init_task ELSE Len(tasks) + 1
    /\ last' = [Step("start_init_connection") EXCEPT
                  !.ret = Return(IF InitPending THEN init_task ELSE Len(tasks) + 1)]
    /\ UNCHANGED <<connection_config, session, insights, clock, ticks, connectCalls,
                   callerVars, uuidCalls, history>>

\* loop.create_task(self._init_database()), stored and returned.
StartInitConnection ==
    /\ Events < MaxEvents
    /\ tasks' = Append(tasks, [state |-> "pending", exc |-> NoExc])
    /\ init_task' = Len(tasks) + 1
    /\ last' = [Step("start_init_connection") EXCEPT !.ret = Return(Len(tasks) + 1)]
    /\ UNCHANGED <<connection_config, session, insights, clock, ticks, connectCalls,
                   callerVars, uuidCalls, history>>

\* The event loop runs a scheduled task: _init_database has no suspension
\* point, so the task runs to its end in one step.
RunTask(t) ==
    /\ t \in 1..Len(tasks)
    /\ tasks[t].state = "pending"
    /\ \E out \in ConnectOutcomes(ConnParams(connection_config)) :
         LET s == InitDatabase(out) IN
         /\ RunInit(s)
         /\ tasks' = [tasks EXCEPT ![t] =
                        [state |-> IF s.exc = NoExc THEN "ok" ELSE "failed", exc |-> s.exc]]
         /\ afterFailure' = (afterFailure /\ s.exc # NoExc)
         /\ last' = [Step("_init_database") EXCEPT !.init = [ran |-> TRUE, exc |-> s.exc]]
    /\ UNCHANGED <<connection_config, init_task, insights, clock, ticks, callerVars,
                   uuidCalls, issued, added>>

\* ----------------------------------------------------- insights and memo
\* Mutant of AddInsight: a text the log holds already is not added again.
AddInsight_SkipsDuplicate(x) ==
    /\ Len(insights) < MaxInsights
    /\ insights' = IF \E i \in 1..Len(insights) : insights[i] = x
                   THEN insights
                   ELSE Append(insights, x)
    /\ added' = Append(added, x)
    /\ last' = [Step("add_insight") EXCEPT !.arg = x]
    /\ UNCHANGED <<connection_config, session, init_task, tasks, clock, ticks,
                   connectCalls, callerVars, uuidCalls, issued, afterFailure>>

\* self.insights.append(insight)
AddInsight(x) ==
    /\ Len(insights) < MaxInsights
    /\ insights' = Append(insights, x)
    /\ added' = Append(added, x)
    /\ last' = [Step("add_insight") EXCEPT !.arg = x]
    /\ UNCHANGED <<connection_config, session, init_task, tasks, clock, ticks,
                   connectCalls, callerVars, uuidCalls, issued, afterFailure>>

GetMemo ==
    /\ last' = [Step("get_memo") EXCEPT !.ret = Return(GetMemoText(insights))]
    /\ UNCHANGED <<connection_config, session, init_task, insights, tasks, clock, ticks,
                   connectCalls, callerVars, uuidCalls, history>>

\* ------------------------------------------------------------ the driver
\* The value of the n-th uuid.uuid4() call: a random 122-bit number, taken
\* here to differ from the value of every other call.
Uuid4(n) == [uuid |-> n]
NoUuid == [uuid |-> 0]

\* str(u) of a UUID: its canonical text.
Str(u) == <<"uuid:", u.uuid>>

\* What the driver may do with the calls of execute_query's try block.
QueryOutcomes ==
    { [kind |-> k, rs |-> NoResultSet, uuid |-> NoUuid] :
        k \in {"execute_fail", "description_fail", "fetchall_fail"} }
    \cup { [kind |-> "ok", rs |-> r, uuid |-> Uuid4(uuidCalls + 1)] : r \in ResultSets }

IntroRow == <<"ANALYST", "SALES", "PUBLIC">>
TableLists == { <<>>, << <<"2024-01-01", "ORDERS">>, <<"2024-01-02", "USERS">> >> }

\* What the driver may do with the calls of test_connection's try block.
TestOutcomes ==
    { [kind |-> k, tables |-> <<>>] :
        k \in {"intro_execute_fail", "fetchone_fail", "tables_execute_fail", "fetchall_fail"} }
    \cup { [kind |-> "ok", tables |-> t] : t \in TableLists }

IntroSql == "SELECT CURRENT_ROLE(), CURRENT_DATABASE(), CURRENT_SCHEMA()"
TablesSql == "SHOW TABLES"

\* self.cursor.execute(sql) as the driver sees it: the text, the handles of
\* the session it is submitted on and the age of its authentication.
Submission(sess, sql) ==
    [sql |-> sql, connection |-> sess.connection, cursor |-> sess.cursor,
     age |-> clock - sess.auth_time]

\* ---------------------------------------------------------- execute_query
\* Mutant of OnQueryError: the error is logged and an empty result returned.
OnQueryError_Swallowed(e) == Return([rows |-> <<>>, data_id |-> <<>>])

\* except Exception as e: logger.error(...); raise
OnQueryError(e) == Raise(e)

\* Mutant of DataId: the identifier is derived from the query text.
DataId_FromQuery(query, u) == <<"uuid:", query>>

\* data_id = str(uuid.uuid4())
DataId(query, u) == Str(u)

\* Mutant of ExecuteQueryBody: a failed execute() is tried a second time.
ExecuteQueryBody_RetriesExecute(sess, query, d) ==
    IF sess.cursor = None
    THEN [ret |-> Raise(AttributeError), subs |-> <<>>, drv |-> NoResultSet,
          err |-> AttributeError, uuids |-> 0]
    ELSE IF d.kind = "ok"
    THEN [ret |-> Return([rows |-> <<>>, data_id |-> Str(d.uuid)]),
          subs |-> <<Submission(sess, query)>>, drv |-> d.rs, err |-> NoExc,
          uuids |-> 1]
    ELSE [ret |-> Raise(DriverError("E_execute")),
          subs |-> <<Submission(sess, query), Submission(sess, query)>>,
          drv |-> NoResultSet, err |-> DriverError("E_execute"), uuids |-> 0]

\* The try block of execute_query on session `sess` with the driver behaving
\* as `d`: what the call returns or raises, what it submitted, what the
\* driver produced.
ExecuteQueryBody(sess, query, d) ==
    IF sess.cursor = None
    THEN [ret |-> OnQueryError(AttributeError), subs |-> <<>>, drv |-> NoResultSet,
          err |-> AttributeError, uuids |-> 0]
    ELSE IF d.kind = "execute_fail"
    THEN [ret |-> OnQueryError(DriverError("E_execute")),
          subs |-> <<Submission(sess, query)>>, drv |-> NoResultSet,
          err |-> DriverError("E_execute"), uuids |-> 0]
    ELSE IF d.kind = "description_fail"
    THEN [ret |-> OnQueryError(DriverError("E_description")),
          subs |-> <<Submission(sess, query)>>, drv |-> NoResultSet,
          err |-> DriverError("E_description"), uuids |-> 0]
    ELSE IF d.kind = "fetchall_fail"
    THEN [ret |-> OnQueryError(DriverError("E_fetchall")),
          subs |-> <<Submission(sess, query)>>, drv |-> NoResultSet,
          err |-> DriverError("E_fetchall"), uuids |-> 0]
    ELSE [ret |-> Return([rows |-> ResultRows(d.rs), data_id |-> DataId(query, d.uuid)]),
          subs |-> <<Submission(sess, query)>>, drv |-> d.rs, err |-> NoExc,
          uuids |-> 1]

\* ---------------------------------------------------------- test_connection
\* Mutant of OnTestError: the error is logged and raised again.
OnTestError_Reraised(e) == Raise(e)

\* except Exception as e: return False, f"Connection test failed: {e}"
OnTestError(e) ==
    Return([ok |-> FALSE, message |-> <<"Connection test failed: ">> \o e.msg])

\* table_list = [table[1] for table in tables]
TableNames(tables) == [i \in 1..Len(tables) |-> tables[i][2]]

TestReport(row, tables) ==
    <<"Connection successful!\nRole: ", row[1], "\nDatabase: ", row[2],
      "\nSchema: ", row[3], "\n\nAvailable tables:\n">>
    \o JoinBullets("\n", TableNames(tables))

\* The try block of test_connection after the session check.
TestConnectionBody(sess, d) ==
    IF sess.cursor = None
    THEN [ret |-> OnTestError(AttributeError), subs |-> <<>>, drv |-> NoResultSet,
          err |-> AttributeError, uuids |-> 0]
    ELSE IF d.kind = "intro_execute_fail"
    THEN [ret |-> OnTestError(DriverError("E_execute")),
          subs |-> <<Submission(sess, IntroSql)>>, drv |-> NoResultSet,
          err |-> DriverError("E_execute"), uuids |-> 0]
    ELSE IF d.kind = "fetchone_fail"
    THEN [ret |-> OnTestError(DriverError("E_fetchone")),
          subs |-> <<Submission(sess, IntroSql)>>, drv |-> NoResultSet,
          err |-> DriverError("E_fetchone"), uuids |-> 0]
    ELSE IF d.kind = "tables_execute_fail"
    THEN [ret |-> OnTestError(DriverError("E_execute")),
          subs |-> <<Submission(sess, IntroSql), Submission(sess, TablesSql)>>,
          drv |-> NoResultSet,
          err |-> DriverError("E_execute"), uuids |-> 0]
    ELSE IF d.kind = "fetchall_fail"
    THEN [ret |-> OnTestError(DriverError("E_fetchall")),
          subs |-> <<Submission(sess, IntroSql), Submission(sess, TablesSql)>>,
          drv |-> NoResultSet,
          err |-> DriverError("E_fetchall"), uuids |-> 0]
    ELSE [ret |-> Return([ok |-> TRUE, message |-> TestReport(IntroRow, d.tables)]),
          subs |-> <<Submission(sess, IntroSql), Submission(sess, TablesSql)>>,
          drv |-> [description |-> <<>>, rows |-> d.tables], err |-> NoExc, uuids |-> 0]

\* ---------------------------------------------------------------- callers
CurrentSession == [connection |-> connection, cursor |-> cursor, auth_time |-> auth_time]

\* A caller calls db.execute_query(q) or db.test_connection(): the coroutine
\* is created and scheduled; none of its code has run yet.
Invoke(p, o, q) ==
    /\ pc[p] = "idle"
    /\ Events < MaxEvents
    /\ pc' = [pc EXCEPT ![p] = "called"]
    /\ op' = [op EXCEPT ![p] = o]
    /\ arg' = [arg EXCEPT ![p] = q]
    /\ ahead' = [ahead EXCEPT ![p] = <<>>]
    /\ ncalls' = ncalls + 1
    /\ last' = [Step(o) EXCEPT !.p = p, !.phase = "invoke", !.arg = q]
    /\ UNCHANGED <<connection_config, session, init_task, insights, tasks, clock, ticks,
                   connectCalls, awaited, uuidCalls, history>>

\* p's coroutine suspends on the stored task.
Suspend(p) ==
    /\ pc' = [pc EXCEPT ![p] = "awaiting"]
    /\ awaited' = [awaited EXCEPT ![p] = init_task]
    /\ last' = [Step(op[p]) EXCEPT !.p = p, !.phase = "suspend", !.arg = arg[p],
                                    !.awaited = init_task, !.ahead = ahead[p]]
    /\ UNCHANGED <<session, connectCalls, op, arg, ahead, uuidCalls, history>>

\* p's call ends: init is the Initialize it ran or awaited, k the connect()
\* calls it made, r its try block's outcome.  Callers whose coroutine exists
\* but has not run yet have p's Initialize run ahead of them.
End(p, init, k, r) ==
    /\ pc' = [pc EXCEPT ![p] = "idle"]
    /\ op' = [op EXCEPT ![p] = "none"]
    /\ arg' = [arg EXCEPT ![p] = ""]
    /\ awaited' = [awaited EXCEPT ![p] = None]
    /\ ahead' = [q \in Procs |->
                   IF q = p THEN <<>>
                   ELSE IF pc[q] = "called" /\ init.ran
                   THEN Append(ahead[q], IF init.exc = NoExc THEN "ok" ELSE "failed")
                   ELSE ahead[q]]
    /\ last' = [Step(op[p]) EXCEPT !.p = p, !.phase = "end", !.arg = arg[p],
                                    !.awaited = awaited[p], !.init = init,
                                    !.ahead = ahead[p], !.opened = k, !.subs = r.subs,
                                    !.drv = r.drv, !.err = r.err, !.ret = r.ret]
    /\ uuidCalls' = uuidCalls + r.uuids
    /\ issued' = IF op[p] = "execute_query" /\ r.ret.kind = "return"
                 THEN issued \cup {r.ret.value.data_id}
                 ELSE issued
    /\ afterFailure' = (init.exc # NoExc \/ r.err # NoExc)
    /\ UNCHANGED added

\* The call ends before its try block reaches the driver.
NoBody(ret) ==
    [ret |-> ret, subs |-> <<>>, drv |-> NoResultSet, err |-> NoExc, uuids |-> 0]

\* Mutant of SessionAfterTry: a failing try block drops the handles.
SessionAfterTry_DropsOnError(sess, r) ==
    IF r.err = NoExc THEN sess ELSE [sess EXCEPT !.connection = None, !.cursor = None]

\* The fields (connection, cursor, auth_time) after the try block of
\* execute_query or test_connection ran on session `sess` with outcome r:
\* neither the block nor its except clause assigns a field of self.
SessionAfterTry(sess, r) == sess

\* The call leaves the session as `s` and makes no connect() call.
KeepSession(s) ==
    /\ connection' = s.connection
    /\ cursor' = s.cursor
    /\ auth_time' = s.auth_time
    /\ UNCHANGED connectCalls

\* execute_query from its first line to its first suspension or its end.
\* The await of _init_database() does not suspend (the coroutine holds no
\* suspension point), and a failure of it is outside the try block.
ExecuteQueryRun(p) ==
    /\ pc[p] = "called"
    /\ op[p] = "execute_query"
    /\ IF InitPending
       THEN Suspend(p)
       ELSE IF NeedsInit
       THEN \E out \in ConnectOutcomes(ConnParams(connection_config)) :
              LET s == InitDatabase(out) IN
              IF s.exc # NoExc
              THEN /\ RunInit(s)
                   /\ End(p, [ran |-> TRUE, exc |-> s.exc], 1, NoBody(Raise(s.exc)))
              ELSE \E d \in QueryOutcomes :
                     LET r == ExecuteQueryBody(s, arg[p], d) IN
                     /\ RunInit(SessionAfterTry(s, r))
                     /\ End(p, [ran |-> TRUE, exc |-> s.exc], 1, r)
       ELSE \E d \in QueryOutcomes :
              LET r == ExecuteQueryBody(CurrentSession, arg[p], d) IN
              /\ KeepSession(SessionAfterTry(CurrentSession, r))
              /\ End(p, NoInit, 0, r)
    /\ UNCHANGED <<connection_config, init_task, insights, tasks, clock, ticks, ncalls>>

\* Mutant of ExecuteQueryResume: the coroutine is woken only by a task that
\* succeeded.
ExecuteQueryResume_OnSuccessOnly(p) ==
    /\ pc[p] = "awaiting"
    /\ op[p] = "execute_query"
    /\ tasks[awaited[p]].state = "ok"
    /\ \E d \in QueryOutcomes :
         LET r == ExecuteQueryBody(CurrentSession, arg[p], d) IN
         /\ KeepSession(SessionAfterTry(CurrentSession, r))
         /\ End(p, [ran |-> FALSE, exc |-> NoExc], 0, r)
    /\ UNCHANGED <<connection_config, init_task, insights, tasks, clock, ticks, ncalls>>

\* execute_query from the end of `await self.init_task` to its end.
ExecuteQueryResume(p) ==
    /\ pc[p] = "awaiting"
    /\ op[p] = "execute_query"
    /\ tasks[awaited[p]].state # "pending"
    /\ LET init == [ran |-> FALSE, exc |-> tasks[awaited[p]].exc]
       IN  IF tasks[awaited[p]].state = "failed"
           THEN /\ End(p, init, 0, NoBody(Raise(tasks[awaited[p]].exc)))
                /\ UNCHANGED <<session, connectCalls>>
           ELSE \E d \in QueryOutcomes :
                  LET r == ExecuteQueryBody(CurrentSession, arg[p], d) IN
                  /\ KeepSession(SessionAfterTry(CurrentSession, r))
                  /\ End(p, init, 0, r)
    /\ UNCHANGED <<connection_config, init_task, insights, tasks, clock, ticks, ncalls>>

\* test_connection from its first line to its first suspension or its end;
\* the session check is inside the try block.
TestConnectionRun(p) ==
    /\ pc[p] = "called"
    /\ op[p] = "test_connection"
    /\ IF InitPending
       THEN Suspend(p)
       ELSE IF NeedsInit
       THEN \E out \in ConnectOutcomes(ConnParams(connection_config)) :
              LET s == InitDatabase(out) IN
              IF s.exc # NoExc
              THEN /\ RunInit(s)
                   /\ End(p, [ran |-> TRUE, exc |-> s.exc], 1, NoBody(OnTestError(s.exc)))
              ELSE \E d \in TestOutcomes :
                     LET r == TestConnectionBody(s, d) IN
                     /\ RunInit(SessionAfterTry(s, r))
                     /\ End(p, [ran |-> TRUE, exc |-> s.exc], 1, r)
       ELSE \E d \in TestOutcomes :
              LET r == TestConnectionBody(CurrentSession, d) IN
              /\ KeepSession(SessionAfterTry(CurrentSession, r))
              /\ End(p, NoInit, 0, r)
    /\ UNCHANGED <<connection_config, init_task, insights, tasks, clock, ticks, ncalls>>

\* test_connection from the end of `await self.init_task` to its end.
TestConnectionResume(p) ==
    /\ pc[p] = "awaiting"
    /\ op[p] = "test_connection"
    /\ tasks[awaited[p]].state # "pending"
    /\ LET init == [ran |-> FALSE, exc |-> tasks[awaited[p]].exc]
       IN  IF tasks[awaited[p]].state = "failed"
           THEN /\ End(p, init, 0, NoBody(OnTestError(tasks[awaited[p]].exc)))
                /\ UNCHANGED <<session, connectCalls>>
           ELSE \E d \in TestOutcomes :
                  LET r == TestConnectionBody(CurrentSession, d) IN
                  /\ KeepSession(SessionAfterTry(CurrentSession, r))
                  /\ End(p, init, 0, r)
    /\ UNCHANGED <<connection_config, init_task, insights, tasks, clock, ticks, ncalls>>

\* ------------------------------------------------------------------ time
\* A coroutine whose awaited task is done is ready to run.
Ready(p) == pc[p] = "awaiting" /\ tasks[awaited[p]].state # "pending"

\* Time passes.  Every step above is instantaneous, so time passes only
\* while no coroutine is ready to start or to resume.
Tick(d) ==
    /\ Events < MaxEvents
    /\ \A p \in Procs : pc[p] # "called" /\ ~Ready(p)
    /\ clock' = clock + d
    /\ ticks' = ticks + 1
    /\ last' = Step("tick")
    /\ UNCHANGED <<connection_config, session, init_task, insights, tasks, connectCalls,
                   callerVars, uuidCalls, history>>

\* --------------------------------------------------------- specification
Next ==
    \/ StartInitConnection
    \/ \E t \in 1..Len(tasks) : RunTask(t)
    \/ AddInsight(SharedText)
    \/ GetMemo
    \/ \E p \in Procs, q \in Queries : Invoke(p, "execute_query", q)
    \/ \E p \in Procs : Invoke(p, "test_connection", "")
    \/ \E p \in Procs : ExecuteQueryRun(p)
    \/ \E p \in Procs : ExecuteQueryResume(p)
    \/ \E p \in Procs : TestConnectionRun(p)
    \/ \E p \in Procs : TestConnectionResume(p)
    \/ \E d \in TickSteps : Tick(d)

Spec == Init /\ [][Next]_vars

\* The insight log and its memo alone, over every text.
NextMemo ==
    \/ \E x \in InsightTexts : AddInsight(x)
    \/ GetMemo
    \/ \E d \in TickSteps : Tick(d)

SpecMemo == Init /\ [][NextMemo]_vars

\* The asyncio event loop runs every callback it holds ready: a task made
\* by create_task gets to run, and a coroutine is resumed once the task it
\* awaits is done.
Fairness ==
    /\ \A t \in 1..MaxEvents : WF_vars(RunTask(t))
    /\ \A p \in Procs : WF_vars(ExecuteQueryResume(p) \/ TestConnectionResume(p))

\* The session and its callers alone, under that scheduling.
NextSession ==
    \/ StartInitConnection
    \/ \E t \in 1..Len(tasks) : RunTask(t)
    \/ \E p \in Procs, q \in Queries : Invoke(p, "execute_query", q)
    \/ \E p \in Procs : Invoke(p, "test_connection", "")
    \/ \E p \in Procs : ExecuteQueryRun(p)
    \/ \E p \in Procs : ExecuteQueryResume(p)
    \/ \E p \in Procs : TestConnectionRun(p)
    \/ \E p \in Procs : TestConnectionResume(p)
    \/ \E d \in TickSteps : Tick(d)

SpecFair == Init /\ [][NextSession]_vars /\ Fairness

\* ================================================================ claims
IsCall == last.op \in {"execute_query", "test_connection"}
CallEnded == IsCall /\ last.phase = "end"

\* The failure a call met: of the Initialize it ran or awaited, else of its
\* driver calls.
Failure == IF last.init.exc # NoExc THEN last.init.exc ELSE last.err

\* C1: whenever execute_query or test_connection hands SQL to the driver, the
\* session it is handed on has a connection handle and a cursor handle and
\* was authenticated at most 1800 seconds before: the call ran Initialize
\* itself, or awaited a pending one to success, or found a session inside
\* the window.
C1_SubmitsOnValidSession ==
    IsCall =>
        \A i \in 1..Len(last.subs) :
            /\ last.subs[i].connection # None
            /\ last.subs[i].cursor # None
            /\ last.subs[i].age >= 0
            /\ last.subs[i].age <= 1800
            /\ \/ last.init.ran /\ last.init.exc = NoExc /\ last.subs[i].age = 0
               \/ last.awaited # None /\ tasks[last.awaited].state = "ok"
               \/ last.pre.connection # None /\ last.pre.elapsed <= 1800

\* A call re-authenticated a session that had gone stale and then submitted.
C1_Witness ==
    /\ CallEnded
    /\ Len(last.subs) > 0
    /\ last.init.ran
    /\ last.pre.cursor # None
    /\ last.pre.elapsed > 1800

\* C2: a successful Initialize sets the authentication timestamp to the time
\* of the call; a call that finds no initialization pending, a connection
\* and at most 1800 seconds elapsed (1800 included) makes no connect() call;
\* and a call makes a connect() call only when it finds no connection or
\* more than 1800 seconds elapsed.
C2_NoInitInsideWindow ==
    /\ (last.init.ran /\ last.init.exc = NoExc) => auth_time = clock
    /\ (CallEnded /\ last.awaited = None /\ last.pre.task # "pending"
          /\ last.pre.connection # None /\ last.pre.elapsed <= 1800)
         => (connectCalls = last.pre.connects /\ ~last.init.ran
             /\ connection = last.pre.connection /\ auth_time = last.pre.auth_time)
    /\ (IsCall /\ connectCalls # last.pre.connects)
         => (last.pre.connection = None \/ last.pre.elapsed > 1800)

\* A call ran exactly 1800 seconds after a successful Initialize.
C2_Witness ==
    /\ CallEnded
    /\ last.awaited = None
    /\ last.pre.task # "pending"
    /\ last.pre.connection # None
    /\ last.pre.elapsed = 1800
    /\ Len(last.subs) > 0

\* C3: a call that finds no initialization pending and more than 1800
\* seconds elapsed since the last authentication makes exactly one
\* connect() call, whether or not a completed task handle is stored.
C3_OneReinitAfterExpiry ==
    (CallEnded /\ last.awaited = None /\ last.pre.task # "pending"
       /\ last.pre.auth_time # 0 /\ last.pre.elapsed > 1800)
      => (connectCalls = last.pre.connects + 1 /\ last.opened = 1 /\ last.init.ran)

\* A call found a completed task handle and a stale session.
C3_Witness ==
    /\ CallEnded
    /\ last.pre.task = "ok"
    /\ last.pre.auth_time # 0
    /\ last.pre.elapsed > 1800
    /\ connectCalls = last.pre.connects + 1

\* C4: test_connection never raises: whatever failed (the Initialize it ran,
\* the task it awaited, the introspection query, the table listing), it
\* returns (False, message) with the error text in the message, and it
\* returns (True, report) only when both queries succeeded.
C4_TestConnectionNeverRaises ==
    (CallEnded /\ last.op = "test_connection") =>
        /\ last.ret.kind = "return"
        /\ Failure # NoExc =>
             /\ last.ret.value.ok = FALSE
             /\ Contains(last.ret.value.message, Failure.msg)
        /\ last.ret.value.ok = TRUE =>
             /\ Failure = NoExc
             /\ Len(last.subs) = 2
             /\ last.subs[1].sql = IntroSql
             /\ last.subs[2].sql = TablesSql
        /\ last.ret.value.ok = FALSE => Failure # NoExc

\* test_connection awaited a task that failed and returned (False, message).
C4_Witness ==
    /\ CallEnded
    /\ last.op = "test_connection"
    /\ last.awaited # None
    /\ last.init.exc # NoExc
    /\ last.ret.kind = "return"
    /\ last.ret.value.ok = FALSE

\* C5: execute_query raises every failure to its caller: a driver error of
\* execute, description or fetchall unchanged, a failure of the Initialize it
\* ran or awaited as that Initialize raised it; it returns rows and an
\* identifier only when nothing failed.
C5_ExecuteQueryPropagates ==
    (CallEnded /\ last.op = "execute_query") =>
        /\ Failure # NoExc => last.ret = Raise(Failure)
        /\ last.ret.kind = "return" => (Failure = NoExc /\ Len(last.subs) = 1)
        /\ last.ret.kind \in {"return", "raise"}

\* execute_query met a driver error while reading the column descriptors.
C5_Witness ==
    /\ CallEnded
    /\ last.op = "execute_query"
    /\ last.err = DriverError("E_description")
    /\ last.ret.kind = "raise"

\* C6: an Initialize that fails raises the one wrapped error and leaves the
\* connection handle, the cursor handle and the authentication timestamp as
\* they were before the call.
C6_FailedInitLeavesSession ==
    (last.init.ran /\ last.init.exc # NoExc) =>
        /\ last.init.exc.type = "ValueError"
        /\ connection = last.pre.connection
        /\ cursor = last.pre.cursor
        /\ auth_time = last.pre.auth_time

\* The calls of one race: those whose Initialize ran ahead of the call that
\* just ended while its coroutine waited to start, and that call itself.
RaceOpens == Len(last.ahead) + last.opened

\* While the stored task is pending every call awaits it and makes no
\* connect() call of its own.
AwaitsPendingHandle ==
    /\ (IsCall /\ last.phase = "suspend") =>
         /\ last.pre.task = "pending"
         /\ last.awaited = last.pre.handle
         /\ connectCalls = last.pre.connects
    /\ (CallEnded /\ last.awaited = None) => last.pre.task # "pending"
    /\ (CallEnded /\ last.awaited # None) =>
         /\ last.opened = 0
         /\ ~last.init.ran
         /\ connectCalls = last.pre.connects

\* C7 as stated: of two callers that race into a session needing
\* initialization with none pending, the second awaits the first's
\* initialization and opens nothing, so the race makes one connect() call;
\* and while the stored task is pending every call awaits it and makes no
\* connect() call of its own.
C7_RaceOpensOnce ==
    /\ (CallEnded /\ last.ahead # <<>>) => (RaceOpens = 1 /\ last.opened = 0)
    /\ AwaitsPendingHandle

\* C7 as amended: a call stores no task handle, so a second caller has
\* nothing to await; the first caller's Initialize runs to its end before the
\* second caller's coroutine starts, and the second makes no connect() call
\* when that Initialize succeeded (it makes its own when it finds the session
\* still in need of initialization); and while the stored task is pending
\* every call awaits it and makes no connect() call of its own.
C7_SecondCallerReusesSuccess ==
    /\ (IsCall /\ last.phase \in {"suspend", "end"}) => init_task = last.pre.handle
    /\ (CallEnded /\ last.ahead # <<>> /\ last.awaited = None
          /\ last.ahead[Len(last.ahead)] = "ok")
         => (last.opened = 0 /\ connectCalls = last.pre.connects /\ ~last.init.ran)
    /\ (CallEnded /\ last.ahead # <<>> /\ last.opened = 1)
         => (last.pre.connection = None \/ last.pre.elapsed > 1800)
    /\ AwaitsPendingHandle

\* The second caller of a race whose first caller initialized the session
\* ran on that session.
C7_Witness ==
    /\ CallEnded
    /\ last.ahead = <<"ok">>
    /\ last.awaited = None
    /\ last.opened = 0
    /\ Len(last.subs) > 0

\* The mapping the claim describes: one item per column, in column order.
ItemPerColumn(columns, row) == [j \in 1..Len(columns) |-> <<columns[j], row[j]>>]

\* The value a dict (a sequence of items) holds under key k.
ValueOf(m, k) == m[CHOOSE a \in 1..Len(m) : m[a][1] = k][2]

FirstIndex(columns, k) ==
    CHOOSE j \in 1..Len(columns) :
        columns[j] = k /\ \A h \in 1..(j - 1) : columns[h] # k

IsLastOfItsName(columns, j) == \A h \in (j + 1)..Len(columns) : columns[h] # columns[j]

Distinct(columns) ==
    \A a, b \in 1..Len(columns) : a # b => columns[a] # columns[b]

\* The column list C of a result set: the names of its descriptors.
ColumnList(rs) == [j \in 1..Len(rs.description) |-> rs.description[j][1]]

ReturnedRows == CallEnded /\ last.op = "execute_query" /\ last.ret.kind = "return"

\* C8 as stated: a successful execute_query returns one mapping per row, in
\* row order, the i-th with one item (C[j], R[i][j]) per column in column
\* order; the SQL text reaches the driver as given.
C8_RowsZipColumns ==
    ReturnedRows =>
        LET c == ColumnList(last.drv)
            r == last.drv.rows
            out == last.ret.value.rows
        IN  /\ Len(out) = Len(r)
            /\ \A i \in 1..Len(r) : out[i] = ItemPerColumn(c, r[i])
            /\ last.subs = <<[sql |-> last.arg, connection |-> connection,
                              cursor |-> cursor, age |-> clock - auth_time]>>

\* C8 as amended: one mapping per row, in row order; its keys are the
\* distinct column names in the order of their first occurrence, and each
\* name maps to the row's value in the last column of that name, which for
\* pairwise distinct names is one item (C[j], R[i][j]) per column in column
\* order; the SQL text reaches the driver as given.
C8_RowsZipColumnsLastWins ==
    ReturnedRows =>
        LET c == ColumnList(last.drv)
            r == last.drv.rows
            out == last.ret.value.rows
        IN  /\ Len(out) = Len(r)
            /\ \A i \in 1..Len(r) :
                 /\ Distinct([a \in 1..Len(out[i]) |-> out[i][a][1]])
                 /\ {out[i][a][1] : a \in 1..Len(out[i])} = {c[j] : j \in 1..Len(c)}
                 /\ \A a, b \in 1..Len(out[i]) :
                      a < b => FirstIndex(c, out[i][a][1]) < FirstIndex(c, out[i][b][1])
                 /\ \A j \in 1..Len(c) :
                      IsLastOfItsName(c, j) => ValueOf(out[i], c[j]) = r[i][j]
                 /\ Distinct(c) => out[i] = ItemPerColumn(c, r[i])
            /\ last.subs = <<[sql |-> last.arg, connection |-> connection,
                              cursor |-> cursor, age |-> clock - auth_time]>>

\* execute_query returned the mappings of rows (1, a), (2, b) under columns
\* id, name.
C8_Witness ==
    /\ ReturnedRows
    /\ ColumnList(last.drv) = <<"id", "name">>
    /\ last.drv.rows = << <<"1", "a">>, <<"2", "b">> >>
    /\ last.ret.value.rows =
         << << <<"id", "1">>, <<"name", "a">> >>, << <<"id", "2">>, <<"name", "b">> >> >>

\* C9: get_memo's text is a function of the insight log: the placeholder for
\* an empty log; for one insight the header and that insight, no summary;
\* for n >= 2 the header, the n insights in log order and the summary
\* sentence with the count n; and get_memo leaves the log as it was.
C9_MemoFollowsLog ==
    last.op = "get_memo" =>
        LET log == last.pre.insights
            n == Len(log)
            m == last.ret.value
        IN  /\ insights = log
            /\ n = 0 => m = MemoPlaceholder
            /\ n >= 1 =>
                 /\ SubSeq(m, 1, 2) = MemoHeader
                 /\ \A i \in 1..n :
                      /\ m[3 * i] = "- "
                      /\ m[3 * i + 1] = log[i]
                      /\ i < n => m[3 * i + 2] = "\n"
            /\ n = 1 => Len(m) = 4
            /\ n >= 2 =>
                 /\ Len(m) = 3 * n + 4
                 /\ SubSeq(m, 3 * n + 2, 3 * n + 4) = <<SummaryHead, ToString(n), SummaryTail>>
            /\ n < 2 => \A a \in 1..Len(m) : m[a] # SummaryHead

\* get_memo rendered a log of two different insights.
C9_Witness ==
    /\ last.op = "get_memo"
    /\ Len(insights) = 2
    /\ insights[1] # insights[2]
    /\ Len(last.ret.value) = 10

\* C10: a cursor handle exists exactly when a connection handle exists, and
\* it is the cursor of that connection.
C10_CursorIffConnection ==
    /\ cursor # None <=> connection # None
    /\ cursor # None => cursor = connection

\* C11: no step changes the connection configuration, and a step that is not
\* a run of Initialize (the rest of execute_query and of test_connection,
\* add_insight, get_memo, start_init_connection, whether it ends in success
\* or in failure) leaves connection, cursor and auth_time as they were.
C11_OnlyInitializeChangesSession ==
    [][ /\ connection_config' = connection_config
        /\ (~last'.init.ran => UNCHANGED <<connection, cursor, auth_time>>) ]_vars

\* A call that ran no Initialize failed at the driver on an established
\* session, which it left as it found it.
C11_Witness ==
    /\ CallEnded
    /\ ~last.init.ran
    /\ last.err # NoExc
    /\ last.pre.connection # None
    /\ last.pre.cursor # None
    /\ session = <<last.pre.connection, last.pre.cursor, last.pre.auth_time>>

\* No retries inside one call: the call makes one connect() call if it ran
\* Initialize and none otherwise, never both runs and awaits an
\* Initialize, submits nothing after a failed Initialize, submits no SQL
\* text twice, and every submission is on the session the call ends with
\* (no Initialize follows a submission).
NoRetry ==
    CallEnded =>
        /\ connectCalls - last.pre.connects = (IF last.init.ran THEN 1 ELSE 0)
        /\ ~(last.init.ran /\ last.awaited # None)
        /\ (last.init.exc # NoExc => last.subs = <<>>)
        /\ \A i, j \in 1..Len(last.subs) : i # j => last.subs[i].sql # last.subs[j].sql
        /\ \A i \in 1..Len(last.subs) :
             last.subs[i].connection = connection /\ last.subs[i].cursor = cursor

\* The session check of a call that found no pending task rejected the
\* session it found.
FoundUnusable == last.pre.connection = None \/ last.pre.elapsed > AUTH_EXPIRATION_TIME

\* C12 as stated: no retries inside one call, and the call that follows a
\* failed execute_query or test_connection call (no Initialize of another
\* caller having run since it was invoked) re-initializes before it submits
\* SQL.
C12_NextCallReinitializes ==
    /\ NoRetry
    /\ (CallEnded /\ last.pre.afterFailure /\ last.ahead = <<>> /\ last.subs # <<>>)
          => (last.init.ran /\ last.init.exc = NoExc)

\* C12, amended: no retries inside one call; a call whose Initialize failed
\* leaves no connection or a stale session; the call that follows a failed
\* call and finds no pending task re-initializes once before it submits SQL
\* when it finds no connection or a stale session, and otherwise (the
\* failure was a driver error inside the window) runs no Initialize and
\* submits on the session as it is.
C12_NextCallReinitializesWhenStale ==
    /\ NoRetry
    /\ (CallEnded /\ last.init.ran /\ last.init.exc # NoExc)
          => (connection = None \/ clock - auth_time > AUTH_EXPIRATION_TIME)
    /\ (CallEnded /\ last.pre.afterFailure /\ last.awaited = None)
          => IF FoundUnusable
             THEN last.init.ran /\ (last.subs # <<>> => last.init.exc = NoExc)
             ELSE /\ ~last.init.ran
                  /\ \A i \in 1..Len(last.subs) :
                       /\ last.subs[i].connection = last.pre.connection
                       /\ last.subs[i].cursor = last.pre.cursor

\* The call after a call whose Initialize failed re-initialized and
\* submitted its SQL.
C12_Witness ==
    /\ CallEnded
    /\ last.pre.afterFailure
    /\ FoundUnusable
    /\ last.init.ran
    /\ last.init.exc = NoExc
    /\ last.subs # <<>>

C14_DataIdNeverReturnedBefore ==
    (CallEnded /\ last.op = "execute_query" /\ last.ret.kind = "return")
        => /\ Len(last.ret.value.data_id) > 0
           /\ last.ret.value.data_id \notin last.pre.issued
           /\ issued = last.pre.issued \cup {last.ret.value.data_id}

\* execute_query returned for the same query text a second time.
C14_Witness ==
    /\ CallEnded
    /\ last.op = "execute_query"
    /\ last.ret.kind = "return"
    /\ Cardinality(issued) > 1

\* C15: a stored task that is done, with success or with failure, plays no
\* part in a later call: the call never awaits it, runs Initialize exactly
\* when it finds no connection or a stale session, and fails only if that
\* Initialize or one of its own driver calls fails; the failure stored in
\* the task is not raised again.
C15_DoneTaskIgnored ==
    /\ (IsCall /\ last.phase = "suspend") => last.pre.task = "pending"
    /\ (CallEnded /\ last.awaited = None /\ last.pre.task \in {"ok", "failed"})
         => /\ last.init.ran = FoundUnusable
            /\ connectCalls - last.pre.connects = (IF FoundUnusable THEN 1 ELSE 0)
            /\ (last.init.exc = NoExc /\ last.err = NoExc)
                 => /\ last.ret.kind = "return"
                    /\ last.op = "test_connection" => last.ret.value.ok

\* A call found a failed task stored, ran its own Initialize with success
\* and returned its result.
C15_Witness ==
    /\ CallEnded
    /\ last.op = "execute_query"
    /\ last.pre.task = "failed"
    /\ last.awaited = None
    /\ last.init.ran
    /\ last.init.exc = NoExc
    /\ last.ret.kind = "return"

\* C16: whatever the state (no session, a fresh one, a stale one, a task
\* still pending), start_init_connection schedules exactly one new task,
\* stores its handle in place of the earlier one and returns that handle;
\* the task has not started when the call returns, the earlier tasks are as
\* they were, no connect() call was made, and connection, cursor and
\* auth_time are unchanged.
C16_SchedulesOneTaskAndReturnsIt ==
    last.op = "start_init_connection" =>
        /\ Len(tasks) = Len(last.pre.tasks) + 1
        /\ SubSeq(tasks, 1, Len(last.pre.tasks)) = last.pre.tasks
        /\ tasks[Len(tasks)] = [state |-> "pending", exc |-> NoExc]
        /\ init_task = Len(tasks)
        /\ init_task # last.pre.handle
        /\ last.ret = Return(init_task)
        /\ ~last.init.ran
        /\ connectCalls = last.pre.connects
        /\ session = <<last.pre.connection, last.pre.cursor, last.pre.auth_time>>

\* start_init_connection was called while the task of an earlier call was
\* still pending.
C16_Witness ==
    /\ last.op = "start_init_connection"
    /\ last.pre.task = "pending"
    /\ tasks[last.pre.handle].state = "pending"
    /\ init_task = last.pre.handle + 1

\* C17: with the event loop running every scheduled task and every
\* coroutine whose awaited task is done, each pending background
\* Initialize completes and each execute_query or test_connection call
\* that awaits one finishes.
C17_PendingInitAndWaitersFinish ==
    /\ \A t \in 1..MaxEvents :
         (t <= Len(tasks) /\ tasks[t].state = "pending")
           ~> (t <= Len(tasks) /\ tasks[t].state # "pending")
    /\ \A p \in Procs : (pc[p] = "awaiting") ~> (pc[p] = "idle")

\* A call that awaited a background Initialize has finished.
C17_Witness ==
    /\ CallEnded
    /\ last.awaited # None
    /\ tasks[last.awaited].state # "pending"
    /\ pc[last.p] = "idle"

====
